---- MODULE Spec2Model ----
(***************************************************************************)
(* A model of skeeter_deleter.py: one run of SkeeterDeleter (log in,       *)
(* archive the repository and its blobs, decode the archive, correlate the *)
(* self-likes, fetch and age-filter the posts, confirm, delete), together  *)
(* with the two pure helpers extract_feed_item and _is_older_than_days.    *)
(***************************************************************************)
EXTENDS Integers, Sequences, FiniteSets, TLC

VARIABLES
    pc,               \* position of the run in __main__ / __init__ / delete
    autodelete,       \* self.autodelete (--yes)
    serverRepo,       \* what sync.get_repo will return for this account
    now,              \* the wall clock, datetime.now(timezone.utc)
    repo,             \* local `repo` of archive_repo / __init__
    repoWritten,      \* the .car snapshot has been written (line 196)
    cursor,           \* local `cursor` of archive_repo
    blob_cids,        \* local `blob_cids` of archive_repo
    savedBlobs,       \* blobs written under _blob/ so far (line 214)
    blobsComplete,    \* history: archive_repo returned with every listed blob saved
    likes,            \* local `likes` of gather_self_liked_posts
    self_like_records,\* local `self_like_records`
    batchIdx,         \* index of the next batch of the chunker generator
    posts,            \* local `posts` (posts.posts of the last response)
    posts_to_delete,  \* local `posts_to_delete`
    to_delete,        \* self.to_delete
    hasToDelete,      \* self.to_delete has been assigned (line 240)
    prompt,           \* local `prompt` of delete
    promptsShown,     \* how many times input() was called
    delIdx,           \* position of the for loop of batch_delete_posts
    trace,            \* history: collaborator calls and stage completions
    fetchCalls,       \* history: the uris argument of every get_posts call
    fetchFailed,      \* history: indices of the get_posts calls that raised
    removeCalls,      \* history: every delete_post / unrepost call
    firstErrAt,       \* history: index of the first removal that raised
    xArchive, xBlock, xResult, xDone,      \* a call of extract_feed_item
    aPost, aDays, aNow, aResult, aDone     \* a call of _is_older_than_days

runVars == <<pc, autodelete, serverRepo, now, repo, repoWritten, cursor,
             blob_cids, savedBlobs, blobsComplete, likes, self_like_records, batchIdx, posts,
             posts_to_delete, to_delete, hasToDelete, prompt, promptsShown,
             delIdx, trace, fetchCalls, fetchFailed, removeCalls, firstErrAt>>
xVars == <<xArchive, xBlock, xResult, xDone>>
aVars == <<aPost, aDays, aNow, aResult, aDone>>
vars == <<runVars, xVars, aVars>>

----------------------------------------------------------------------------
(* Bounds of the model *)

\* number of blocks of the small archives
MaxBlocks == 2
\* self-likes of the largest padded archive (30 gives batches of 25 and 5)
MaxLikes == 30
\* posts in one get_posts response
MaxResp == 2
\* pages that list_blobs serves
MaxPages == 2
\* times the confirmation prompt is answered
MaxPrompts == 2
\* clock ticks during the fetch loop
MaxTicks == 1
\* time units per day (the clock is finer than a day)
UnitsPerDay == 2

(* Program constants *)

\* chunker(self_like_records, 25)
BatchSize == 25
\* self._is_older_than_days(p, 3)
AgeDays == 3

----------------------------------------------------------------------------
(* Identities, URIs and content hashes *)

Me == "did:me"
Other == "did:other"

\* An at-URI "at://<repo>/app.bsky.feed.post/<rkey><tag>": repo is the DID of
\* the repository holding the record; tag is further text of the URI, which
\* may itself spell a DID.
Uri(r, k, t) == [repo |-> r, rkey |-> k, tag |-> t]

\* `did in uri` (line 162): substring containment, anywhere in the URI.
UriContains(did, uri) == did \in {uri.repo, uri.tag}

\* A CID object is modelled by a number; its string form (as the decoded
\* records hold it in link fields) by [b32 |-> n].
CIDencode(c) == [b32 |-> c]
CIDdecode(s) == s.b32

----------------------------------------------------------------------------
(* Archive blocks *)

NoUri == Uri("", 0, "")
NoSubject == [uri |-> NoUri, cid |-> CIDencode(0)]

\* The value dict.get returns for a missing key.
NoneBlock == [present |-> FALSE, type |-> "None", marker |-> FALSE,
              hasE |-> FALSE, e |-> <<>>, hasSubject |-> FALSE,
              subject |-> NoSubject]

\* type: the `$type` field ("none" when the block has no `$type`);
\* marker: str(block) contains 'app.bsky.feed.like'; hasE/e: the `e` list of
\* an MST node, each element holding a link `v`; subject: of a like record.
Block(t, m, he, es, hs, s) ==
    [present |-> TRUE, type |-> t, marker |-> m, hasE |-> he, e |-> es,
     hasSubject |-> hs, subject |-> s]

Like(uri, c) == Block("like", TRUE, FALSE, <<>>, TRUE,
                      [uri |-> uri, cid |-> CIDencode(c)])
Node(m, targets) == Block("none", m, TRUE,
                          [i \in 1..Len(targets) |-> [v |-> CIDencode(targets[i])]],
                          FALSE, NoSubject)

\* A CID that is never a key of a small archive.
Dangling == MaxBlocks + 1

\* the blocks a small archive is made of
BlockKinds ==
    { Like(Uri(Me, 1, ""), 1),                  \* a self-like, subject present
      Like(Uri(Me, 2, ""), Dangling),           \* self-like, subject block missing
      Like(Uri(Other, 1, ""), 1),               \* like of someone else's post
      Like(Uri(Other, 2, Me), 1),               \* foreign post, URI spells my DID
      Block("post", FALSE, FALSE, <<>>, FALSE, NoSubject),
      Block("post", TRUE, FALSE, <<>>, FALSE, NoSubject),  \* text mentions the marker
      Node(TRUE, <<1>>), Node(TRUE, <<2, 1>>), Node(TRUE, <<Dangling>>) }

\* further shapes extract_feed_item may be handed
MoreBlockKinds ==
    { Block("like", TRUE, TRUE, <<[v |-> CIDencode(2)]>>, TRUE,
            [uri |-> Uri(Me, 4, ""), cid |-> CIDencode(1)]),  \* `$type` and `e`
      Block("post", FALSE, TRUE, <<>>, FALSE, NoSubject),
      Node(FALSE, <<2>>), Node(FALSE, <<>>), Node(TRUE, <<>>),
      Block("none", FALSE, FALSE, <<>>, FALSE, NoSubject) } \* the commit block

\* archive.blocks: a dict from CID to block; iteration order is key order.
SmallArchives == UNION {[1..k -> BlockKinds] : k \in 0..MaxBlocks}

\* A padded archive: a dangling self-like, n self-likes, a foreign like.
LargeArchive(n) ==
    [i \in 1..(n + 2) |->
        IF i = 1 THEN Like(Uri(Me, 1, ""), n + 3)
        ELSE IF i = n + 2 THEN Like(Uri(Other, i, ""), 1)
        ELSE Like(Uri(Me, i, ""), i)]

LargeSizes == {BatchSize - 1, BatchSize, BatchSize + 1, MaxLikes}
LargeArchives == {LargeArchive(n) : n \in LargeSizes}

\* archive.blocks.get(cid) with a CID object.
BlocksGet(archive, c) ==
    IF c \in DOMAIN archive THEN archive[c] ELSE NoneBlock

\* archive.blocks.get(s) with the string form of a CID (line 161): CID
\* hashes and compares equal to its string form.
BlocksGetStr(archive, s) ==
    IF \E c \in DOMAIN archive : CIDencode(c) = s
    THEN archive[CHOOSE c \in DOMAIN archive : CIDencode(c) = s]
    ELSE NoneBlock

extract_feed_item_first_wins(archive, block) ==
    IF block.hasE /\ Len(block.e) > 0
    THEN BlocksGet(archive, CIDdecode(block.e[1].v))
    ELSE block

extract_feed_item(archive, block) ==
    IF block.type # "none" THEN block
    ELSE IF block.hasE /\ Len(block.e) > 0
         THEN BlocksGet(archive, CIDdecode(block.e[1].v))
         ELSE block

----------------------------------------------------------------------------
(* Creation times and the age filter *)

\* A value found in a created_at / createdAt field.  kind: "none" (field
\* missing or None), "str", "datetime", "other" (any other type).  A string
\* has a form: "Z" (ISO with trailing Z), "offset" (ISO with UTC offset),
\* "naive" (ISO without timezone), "bad" (not ISO), "empty" ('').  local is
\* the wall-clock reading, off the UTC offset, both in time units.
TimeVal(k, f, l, o) == [kind |-> k, form |-> f, local |-> l, off |-> o]
NoTime == TimeVal("none", "", 0, 0)
StrTime(f, l, o) == TimeVal("str", f, l, o)
DtAware(l, o) == TimeVal("datetime", "aware", l, o)
DtNaive(l) == TimeVal("datetime", "naive", l, 0)
OtherTime == TimeVal("other", "", 0, 0)

\* Python truthiness of a field value, as `a or b` tests it.
Truthy(v) == v.kind # "none" /\ ~(v.kind = "str" /\ v.form = "empty")

\* a or b
PyOr(a, b) == IF Truthy(a) THEN a ELSE b

\* post.record: shape "model" (attributes), "dict" (mapping) or "None".
Record(sh, ca, cA) == [shape |-> sh, created_at |-> ca, createdAt |-> cA]

\* getattr(post.record, name, None)
GetAttr(rec, name) ==
    IF rec.shape = "model"
    THEN (IF name = "created_at" THEN rec.created_at ELSE rec.createdAt)
    ELSE NoTime

\* post.record.get(name), None when the call raises (lines 115-118)
DictGet(rec, name) ==
    IF rec.shape = "dict"
    THEN (IF name = "created_at" THEN rec.created_at ELSE rec.createdAt)
    ELSE NoTime

\* lines 106-118: the located value
LocateCreated(rec) ==
    LET byAttr == PyOr(GetAttr(rec, "created_at"), GetAttr(rec, "createdAt"))
    IN  IF byAttr.kind # "none" THEN byAttr
        ELSE PyOr(DictGet(rec, "createdAt"), DictGet(rec, "created_at"))

\* datetime.fromisoformat after the 'Z' replacement (lines 126-129):
\* [ok, aware, local, off]
FromIso(v) ==
    IF v.form = "Z" THEN [ok |-> TRUE, aware |-> TRUE, local |-> v.local, off |-> 0]
    ELSE IF v.form = "offset"
         THEN [ok |-> TRUE, aware |-> TRUE, local |-> v.local, off |-> v.off]
    ELSE IF v.form = "naive"
         THEN [ok |-> TRUE, aware |-> FALSE, local |-> v.local, off |-> 0]
    ELSE [ok |-> FALSE, aware |-> FALSE, local |-> 0, off |-> 0]

\* lines 139-140 and the subtraction of line 142: the UTC instant
UtcInstant(dt) == IF dt.aware THEN dt.local - dt.off ELSE dt.local

is_older_than_days_nonstrict(post, days, nowv) ==
    LET created == LocateCreated(post.record)
        dt == IF created.kind = "str" THEN FromIso(created)
              ELSE [ok |-> TRUE, aware |-> created.form = "aware",
                    local |-> created.local, off |-> created.off]
    IN  IF created.kind \notin {"str", "datetime"} THEN FALSE
        ELSE IF ~dt.ok THEN FALSE
        ELSE (nowv - UtcInstant(dt)) >= days * UnitsPerDay

\* _is_older_than_days(post, days), evaluated when the clock reads nowv
is_older_than_days(post, days, nowv) ==
    LET created == LocateCreated(post.record)
        dt == IF created.kind = "str" THEN FromIso(created)
              ELSE [ok |-> TRUE, aware |-> created.form = "aware",
                    local |-> created.local, off |-> created.off]
    IN  IF created.kind = "none" THEN FALSE
        ELSE IF created.kind = "str" /\ ~dt.ok THEN FALSE
        ELSE IF created.kind \notin {"str", "datetime"} THEN FALSE
        ELSE (nowv - UtcInstant(dt)) > days * UnitsPerDay

----------------------------------------------------------------------------
(* Posts as the post-fetch collaborator returns them *)

\* A PostView: uri, author.did, record, viewer.repost
Post(u, a, r) == [uri |-> u, author |-> a, record |-> r, repost |-> u]

\* The clock reading when the run starts.
NowStart == AgeDays * UnitsPerDay + 1

OldRecord == Record("model", DtAware(0, 0), NoTime)
ExactRecord == Record("model", StrTime("Z", 1, 0), NoTime)
UndatedRecord == Record("model", NoTime, NoTime)

PostPool ==
    { Post(Uri(Me, 1, ""), Me, OldRecord),       \* mine, older than 3 days
      Post(Uri(Me, 2, ""), Me, ExactRecord),     \* mine, exactly 3 days old at start
      Post(Uri(Other, 2, Me), Other, OldRecord) } \* someone else's, old

RECURSIVE SeqsUpTo(_, _)
SeqsUpTo(S, n) ==
    IF n = 0 THEN {<<>>}
    ELSE LET shorter == SeqsUpTo(S, n - 1)
         IN  shorter \cup {Append(q, x) : q \in shorter, x \in S}

\* what get_posts may answer: any posts, requested or not
Responses == SeqsUpTo(PostPool, MaxResp)

----------------------------------------------------------------------------
(* Helpers of the run *)

Min(a, b) == IF a < b THEN a ELSE b

\* seq[lo:hi] of Python, 0-based and clamped, as a 1-based sequence
Slice(seq, lo, hi) == SubSeq(seq, lo + 1, Min(hi, Len(seq)))

chunker_drop_tail(seq, size) ==
    [k \in 1..(Len(seq) \div size) |-> Slice(seq, (k - 1) * size, k * size)]

\* chunker(seq, size): one slice per pos in range(0, len(seq), size)
chunker(seq, size) ==
    LET starts == {pos \in 0..(Len(seq) - 1) : pos % size = 0}
    IN  [k \in 1..Cardinality(starts) |-> Slice(seq, (k - 1) * size, k * size)]

\* [archive.blocks.get(cid) for cid in archive.blocks]
BlockList(archive) == [i \in 1..Len(archive) |-> BlocksGet(archive, i)]

\* filter(lambda x: 'app.bsky.feed.like' in str(x), ...)
HasLikeMarker(block) == block.marker

\* lines 156-158: the marker filter runs on the raw blocks, the
\* normalization on what the filter kept
ExtractLikes(archive) ==
    LET kept == SelectSeq(BlockList(archive), HasLikeMarker)
    IN  [i \in 1..Len(kept) |-> extract_feed_item(archive, kept[i])]

\* x['subject'] raises (KeyError, or TypeError on None) for such an element
SubscriptRaises(x) == ~x.hasSubject

IsSelfLike_uri_only(archive, x) == UriContains(Me, x.subject.uri)

\* the two filters of lines 161-162; the outer one tests the truth value of
\* the block found, and a block of a repository is a non-empty mapping
IsSelfLike(archive, x) ==
    /\ UriContains(Me, x.subject.uri)
    /\ BlocksGetStr(archive, x.subject.cid).present

SelfLikeRecords(archive, ls) ==
    SelectSeq(ls, LAMBDA x : IsSelfLike(archive, x))

\* [x['subject']['uri'] for x in batch]
BatchUris(batch) == [i \in 1..Len(batch) |-> batch[i].subject.uri]

\* the condition of line 171
Qualifies(p, nowv) ==
    p.author = Me /\ is_older_than_days(p, AgeDays, nowv)

Confirmed_any_answer(auto, reply) == auto \/ reply \in {"Y", "n"}

\* the condition of line 248
Confirmed(auto, reply) == auto \/ reply = "Y"

\* the loop condition of line 245
MustPrompt(auto, reply) == ~auto /\ reply \notin {"Y", "n"}

AfterLogin_ignoring_failure(ok) == "get_repo"

\* client.login raises on failure and __init__ propagates it (line 224)
AfterLogin(ok) == IF ok THEN "get_repo" ELSE "failed"

AfterFetchError_propagating(last) == "failed"

\* lines 173-176: the error is logged and the loop goes on
AfterFetchError(last) == IF last THEN "delete" ELSE "fetch"

AfterRemove_propagating(outcome, last) ==
    IF outcome # "ok" THEN "failed" ELSE IF last THEN "done" ELSE "deleting"

\* lines 44-47 and 52-55: both except clauses log and return
AfterRemove(outcome, last) == IF last THEN "done" ELSE "deleting"

Replies == {"Y", "n", "y"}
Outcomes == {"ok", "http", "error"}

----------------------------------------------------------------------------
(* The run: __main__, SkeeterDeleter.__init__, SkeeterDeleter.delete *)

ServerRepos ==
    {[valid |-> TRUE, blocks |-> a] : a \in SmallArchives \cup LargeArchives}
    \cup {[valid |-> FALSE, blocks |-> <<>>]}

NoRepo == [valid |-> FALSE, blocks |-> <<>>]

\* the locals and the history before anything has run
RunFresh ==
    /\ now = NowStart
    /\ repo = NoRepo
    /\ repoWritten = FALSE
    /\ cursor = 0
    /\ blob_cids = <<>>
    /\ savedBlobs = <<>>
    /\ blobsComplete = FALSE
    /\ likes = <<>>
    /\ self_like_records = <<>>
    /\ batchIdx = 0
    /\ posts = <<>>
    /\ posts_to_delete = <<>>
    /\ to_delete = <<>>
    /\ hasToDelete = FALSE
    /\ prompt = "None"
    /\ promptsShown = 0
    /\ delIdx = 0
    /\ trace = <<>>
    /\ fetchCalls = <<>>
    /\ fetchFailed = {}
    /\ removeCalls = <<>>
    /\ firstErrAt = 0

RunStart ==
    /\ pc = "login"
    /\ autodelete \in BOOLEAN
    /\ serverRepo \in ServerRepos
    /\ RunFresh

\* no run: only a helper is exercised
RunIdle == pc = "idle" /\ autodelete = FALSE /\ serverRepo = NoRepo /\ RunFresh

XIdle == xArchive = <<>> /\ xBlock = NoneBlock /\ xResult = NoneBlock /\ xDone = FALSE
AIdle == /\ aPost = Post(NoUri, Me, UndatedRecord)
         /\ aDays = 0 /\ aNow = 0 /\ aResult = FALSE /\ aDone = FALSE

Init == RunStart /\ XIdle /\ AIdle

\* line 224: self.client.login(...)
Login ==
    /\ pc = "login"
    /\ \E ok \in BOOLEAN :
         /\ pc' = AfterLogin(ok)
         /\ trace' = IF ok THEN Append(trace, "auth") ELSE trace
    /\ UNCHANGED <<autodelete, serverRepo, now, repo, repoWritten, cursor,
                   blob_cids, savedBlobs, likes, self_like_records, batchIdx,
                   posts, posts_to_delete, to_delete, hasToDelete, prompt,
                   promptsShown, delIdx, fetchCalls, fetchFailed, removeCalls,
                   firstErrAt, blobsComplete,
                   xVars, aVars>>

\* lines 190-196: get_repo, then the snapshot is written
GetRepo ==
    /\ pc = "get_repo"
    /\ \E ok \in BOOLEAN :
         IF ok
         THEN /\ repo' = serverRepo
              /\ repoWritten' = TRUE
              /\ pc' = "list_blobs"
         ELSE /\ pc' = "failed"
              /\ UNCHANGED <<repo, repoWritten>>
    /\ UNCHANGED <<autodelete, serverRepo, now, cursor, blob_cids, savedBlobs,
                   likes, self_like_records, batchIdx, posts, posts_to_delete,
                   to_delete, hasToDelete, prompt, promptsShown, delIdx, trace,
                   fetchCalls, fetchFailed, removeCalls, firstErrAt, blobsComplete,
                   xVars, aVars>>

\* archive_repo returns `repo` (line 216): its locals go out of scope
ArchiveDone(saved, listed) ==
    /\ pc' = "decode"
    /\ trace' = Append(trace, "archived")
    /\ blobsComplete' = (saved = listed)
    /\ cursor' = 0
    /\ blob_cids' = <<>>
    /\ savedBlobs' = <<>>

\* lines 201-206: one page of list_blobs; `cursor` counts the pages served
ListBlobs ==
    /\ pc = "list_blobs"
    /\ \/ /\ pc' = "failed"
          /\ UNCHANGED <<cursor, blob_cids, savedBlobs, blobsComplete, trace>>
       \/ \E n \in 0..1, more \in BOOLEAN :
            LET listed == IF n = 1 THEN Append(blob_cids, Len(blob_cids) + 1)
                          ELSE blob_cids
            IN  /\ more => cursor + 1 < MaxPages
                /\ IF more \/ Len(listed) > 0
                   THEN /\ pc' = IF more THEN "list_blobs" ELSE "get_blob"
                        /\ blob_cids' = listed
                        /\ cursor' = cursor + 1
                        /\ UNCHANGED <<savedBlobs, blobsComplete, trace>>
                   ELSE ArchiveDone(savedBlobs, listed)
    /\ UNCHANGED <<autodelete, serverRepo, now, repo, repoWritten,
                   likes, self_like_records, batchIdx, posts, posts_to_delete,
                   to_delete, hasToDelete, prompt, promptsShown, delIdx,
                   fetchCalls, fetchFailed, removeCalls, firstErrAt,
                   xVars, aVars>>

\* lines 207-214: one blob is fetched and written
GetBlob ==
    /\ pc = "get_blob"
    /\ \/ /\ pc' = "failed"
          /\ UNCHANGED <<cursor, blob_cids, savedBlobs, blobsComplete, trace>>
       \/ LET saved == Append(savedBlobs, blob_cids[Len(savedBlobs) + 1])
          IN  IF Len(saved) = Len(blob_cids)
              THEN ArchiveDone(saved, blob_cids)
              ELSE /\ pc' = "get_blob"
                   /\ savedBlobs' = saved
                   /\ UNCHANGED <<cursor, blob_cids, blobsComplete, trace>>
    /\ UNCHANGED <<autodelete, serverRepo, now, repo, repoWritten,
                   likes, self_like_records, batchIdx, posts,
                   posts_to_delete, to_delete, hasToDelete, prompt,
                   promptsShown, delIdx, fetchCalls, fetchFailed, removeCalls,
                   firstErrAt,
                   xVars, aVars>>

\* lines 154-158: CAR.from_bytes, then the like extraction
DecodeArchive ==
    /\ pc = "decode"
    /\ IF repo.valid
       THEN /\ likes' = ExtractLikes(repo.blocks)
            /\ trace' = Append(trace, "decoded")
            /\ pc' = "correlate"
       ELSE /\ pc' = "failed"
            /\ UNCHANGED <<likes, trace>>
    /\ UNCHANGED <<autodelete, serverRepo, now, repo, repoWritten, cursor,
                   blob_cids, savedBlobs, self_like_records, batchIdx, posts,
                   posts_to_delete, to_delete, hasToDelete, prompt,
                   promptsShown, delIdx, fetchCalls, fetchFailed, removeCalls,
                   firstErrAt, blobsComplete,
                   xVars, aVars>>

\* gather_self_liked_posts returns and __init__ stores the list (lines 177, 240)
GatherReturn(result) ==
    /\ to_delete' = result
    /\ hasToDelete' = TRUE

\* lines 161-165: the self-like filter; the loop starts (or has no batch)
CorrelateSelfLikes ==
    /\ pc = "correlate"
    /\ IF \E i \in 1..Len(likes) : SubscriptRaises(likes[i])
       THEN /\ pc' = "failed"
            /\ UNCHANGED <<self_like_records, batchIdx, to_delete, hasToDelete>>
       ELSE /\ self_like_records' = SelfLikeRecords(repo.blocks, likes)
            /\ batchIdx' = 1
            /\ IF Len(chunker(self_like_records', BatchSize)) = 0
               THEN pc' = "delete" /\ GatherReturn(<<>>)
               ELSE pc' = "fetch" /\ UNCHANGED <<to_delete, hasToDelete>>
    /\ UNCHANGED <<autodelete, serverRepo, now, repo, repoWritten, cursor,
                   blob_cids, savedBlobs, likes, posts, posts_to_delete, prompt,
                   promptsShown, delIdx, trace, fetchCalls, fetchFailed,
                   removeCalls, firstErrAt, blobsComplete,
                   xVars, aVars>>

Batches == chunker(self_like_records, BatchSize)
LastBatch == batchIdx = Len(Batches)

\* the clock moves on while the request is served
Tick == now' \in {t \in now..(now + 1) : t <= NowStart + MaxTicks}

\* lines 167-172: get_posts answers; the qualifying posts are appended
FetchOk ==
    /\ pc = "fetch"
    /\ Tick
    /\ \E resp \in Responses :
         /\ posts' = resp
         /\ posts_to_delete' =
              posts_to_delete \o SelectSeq(resp, LAMBDA p : Qualifies(p, now'))
    /\ fetchCalls' = Append(fetchCalls, BatchUris(Batches[batchIdx]))
    /\ trace' = Append(trace, "get_posts")
    /\ batchIdx' = batchIdx + 1
    /\ IF LastBatch
       THEN pc' = "delete" /\ GatherReturn(posts_to_delete')
       ELSE pc' = "fetch" /\ UNCHANGED <<to_delete, hasToDelete>>
    /\ UNCHANGED <<autodelete, serverRepo, repo, repoWritten, cursor, blob_cids,
                   savedBlobs, likes, self_like_records, fetchFailed, prompt,
                   promptsShown, delIdx, removeCalls, firstErrAt, blobsComplete,
                   xVars, aVars>>

\* lines 173-176: get_posts raises (HTTPStatusError or any Exception)
FetchError ==
    /\ pc = "fetch"
    /\ Tick
    /\ fetchCalls' = Append(fetchCalls, BatchUris(Batches[batchIdx]))
    /\ fetchFailed' = fetchFailed \cup {batchIdx}
    /\ trace' = Append(trace, "get_posts")
    /\ batchIdx' = batchIdx + 1
    /\ pc' = AfterFetchError(LastBatch)
    /\ IF pc' = "delete"
       THEN GatherReturn(posts_to_delete)
       ELSE UNCHANGED <<to_delete, hasToDelete>>
    /\ UNCHANGED <<autodelete, serverRepo, repo, repoWritten, cursor, blob_cids,
                   savedBlobs, likes, self_like_records, posts, posts_to_delete,
                   prompt, promptsShown, delIdx, removeCalls, firstErrAt, blobsComplete,
                   xVars, aVars>>

\* lines 245-247: the prompt is shown and answered
Prompt ==
    /\ pc = "delete"
    /\ MustPrompt(autodelete, prompt)
    /\ promptsShown < MaxPrompts
    /\ prompt' \in Replies
    /\ promptsShown' = promptsShown + 1
    /\ UNCHANGED <<pc, autodelete, serverRepo, now, repo, repoWritten, cursor,
                   blob_cids, savedBlobs, likes, self_like_records, batchIdx,
                   posts, posts_to_delete, to_delete, hasToDelete, delIdx,
                   trace, fetchCalls, fetchFailed, removeCalls, firstErrAt, blobsComplete,
                   xVars, aVars>>

\* lines 248-249 and 179-183: batch_delete_posts is entered
BatchDeleteStart ==
    /\ pc = "delete"
    /\ ~MustPrompt(autodelete, prompt)
    /\ Confirmed(autodelete, prompt)
    /\ delIdx' = 1
    /\ pc' = IF Len(to_delete) = 0 THEN "done" ELSE "deleting"
    /\ UNCHANGED <<autodelete, serverRepo, now, repo, repoWritten, cursor,
                   blob_cids, savedBlobs, likes, self_like_records, batchIdx,
                   posts, posts_to_delete, to_delete, hasToDelete, prompt,
                   promptsShown, trace, fetchCalls, fetchFailed, removeCalls,
                   firstErrAt, blobsComplete,
                   xVars, aVars>>

\* line 248 is false: delete returns without deleting
Decline ==
    /\ pc = "delete"
    /\ ~MustPrompt(autodelete, prompt)
    /\ ~Confirmed(autodelete, prompt)
    /\ pc' = "done"
    /\ UNCHANGED <<autodelete, serverRepo, now, repo, repoWritten, cursor,
                   blob_cids, savedBlobs, likes, self_like_records, batchIdx,
                   posts, posts_to_delete, to_delete, hasToDelete, prompt,
                   promptsShown, delIdx, trace, fetchCalls, fetchFailed,
                   removeCalls, firstErrAt, blobsComplete,
                   xVars, aVars>>

\* PostQualifier.remove (lines 36-55) for the post the loop of line 183 is at;
\* the log line 184 reads record.text and record.created_at, which a post
\* record returned by get_posts has
Remove ==
    /\ pc = "deleting"
    /\ LET post == to_delete[delIdx]
           op == IF post.author # Me THEN "unrepost" ELSE "delete_post"
           arg == IF post.author # Me THEN post.repost ELSE post.uri
       IN  /\ removeCalls' = Append(removeCalls, [op |-> op, arg |-> arg])
           /\ trace' = Append(trace, op)
           /\ \E outcome \in Outcomes :
                /\ firstErrAt' = IF outcome # "ok" /\ firstErrAt = 0
                                 THEN delIdx ELSE firstErrAt
                /\ pc' = AfterRemove(outcome, delIdx = Len(to_delete))
    /\ delIdx' = delIdx + 1
    /\ UNCHANGED <<autodelete, serverRepo, now, repo, repoWritten, cursor,
                   blob_cids, savedBlobs, likes, self_like_records, batchIdx,
                   posts, posts_to_delete, to_delete, hasToDelete, prompt,
                   promptsShown, fetchCalls, fetchFailed, blobsComplete,
                   xVars, aVars>>

Next ==
    \/ Login \/ GetRepo \/ ListBlobs \/ GetBlob
    \/ DecodeArchive \/ CorrelateSelfLikes
    \/ FetchOk \/ FetchError
    \/ Prompt \/ BatchDeleteStart \/ Decline \/ Remove

Spec == Init /\ [][Next]_vars

----------------------------------------------------------------------------
(* extract_feed_item on its own: any small archive, any block *)

InitExtract ==
    /\ RunIdle /\ AIdle
    /\ xArchive \in SmallArchives
    /\ xBlock \in BlockKinds \cup MoreBlockKinds
    /\ xResult = NoneBlock
    /\ xDone = FALSE

ExtractCall ==
    /\ ~xDone
    /\ xResult' = extract_feed_item(xArchive, xBlock)
    /\ xDone' = TRUE
    /\ UNCHANGED <<xArchive, xBlock, runVars, aVars>>

SpecExtract == InitExtract /\ [][ExtractCall]_vars

----------------------------------------------------------------------------
(* _is_older_than_days on its own: any record, threshold and clock reading *)

Locals == 0..1
Offsets == {-1, 1}

TimeVals ==
    {NoTime, OtherTime, StrTime("empty", 0, 0), StrTime("bad", 0, 0)}
    \cup {StrTime("Z", l, 0) : l \in Locals}
    \cup {StrTime("naive", l, 0) : l \in Locals}
    \cup {StrTime("offset", l, o) : l \in Locals, o \in Offsets}
    \cup {DtNaive(l) : l \in Locals}
    \cup {DtAware(l, o) : l \in Locals, o \in Offsets}

AgeRecords ==
    {Record(sh, ca, cA) : sh \in {"model", "dict"}, ca \in TimeVals, cA \in TimeVals}
    \cup {Record("None", NoTime, NoTime)}

AgeThresholds == {0, 1, AgeDays}
AgeNows == 0..(AgeDays * UnitsPerDay + 2)

InitAge ==
    /\ RunIdle /\ XIdle
    /\ aPost \in {Post(Uri(Me, 1, ""), Me, r) : r \in AgeRecords}
    /\ aDays \in AgeThresholds
    /\ aNow \in AgeNows
    /\ aResult = FALSE
    /\ aDone = FALSE

AgeCall ==
    /\ ~aDone
    /\ aResult' = is_older_than_days(aPost, aDays, aNow)
    /\ aDone' = TRUE
    /\ UNCHANGED <<aPost, aDays, aNow, runVars, xVars>>

SpecAge == InitAge /\ [][AgeCall]_vars

----------------------------------------------------------------------------
(* Properties *)

RECURSIVE Flatten(_)
Flatten(ss) == IF ss = <<>> THEN <<>> ELSE Head(ss) \o Flatten(Tail(ss))

IsPrefix(a, b) == Len(a) <= Len(b) /\ a = SubSeq(b, 1, Len(a))

\* The creation time of a record as the design describes it: the field the
\* record's naming convention puts first, the other one when that is empty.
RefField(rec) ==
    IF rec.shape = "model"
    THEN (IF Truthy(rec.created_at) THEN rec.created_at ELSE rec.createdAt)
    ELSE IF rec.shape = "dict"
    THEN (IF Truthy(rec.createdAt) THEN rec.createdAt ELSE rec.created_at)
    ELSE NoTime

\* a creation time can be determined: an ISO string or a date-time value
RefDetermined(rec) ==
    \/ RefField(rec).kind = "datetime"
    \/ RefField(rec).kind = "str" /\ RefField(rec).form \in {"Z", "offset", "naive"}

\* the instant it denotes, a reading without timezone being UTC
RefInstant(rec) ==
    LET v == RefField(rec)
    IN  IF v.form \in {"offset", "aware"} THEN v.local - v.off ELSE v.local

RefOlder(p, days, nowv) ==
    RefDetermined(p.record) /\ nowv - RefInstant(p.record) > days * UnitsPerDay

\* the like records of an archive that are self-likes: the subject URI
\* contains the account identifier and the subject CID is a key of the archive
RefSelfLike(archive, x) ==
    /\ x.hasSubject
    /\ Me \in {x.subject.uri.repo, x.subject.uri.tag}
    /\ CIDdecode(x.subject.cid) \in DOMAIN archive

\* C1: every post of the to-delete set is authored by the account, is the
\* subject of a self-like record of the archive, and was created more than
\* 3 days before now.
C1_AllThreeConditions ==
    hasToDelete =>
        \A i \in 1..Len(to_delete) :
            /\ to_delete[i].author = Me
            /\ \E c \in DOMAIN repo.blocks :
                  /\ repo.blocks[c].type = "like"
                  /\ RefSelfLike(repo.blocks, repo.blocks[c])
                  /\ repo.blocks[c].subject.uri = to_delete[i].uri
            /\ RefOlder(to_delete[i], AgeDays, now)

\* C2: a delete-post or unrepost call happens only with auto-confirm set or
\* the latest reply being exactly "Y"; after a reply "n" the run ends with no
\* such call; after any other reply only the prompt can follow; with
\* auto-confirm the prompt is never shown.
C2_ConfirmationGate ==
    /\ (pc = "deleting" \/ removeCalls # <<>>) => (autodelete \/ prompt = "Y")
    /\ (~autodelete /\ prompt = "n") =>
          /\ removeCalls = <<>>
          /\ pc \in {"delete", "done"}
          /\ ~ENABLED BatchDeleteStart
          /\ ~ENABLED Prompt
    /\ (pc = "delete" /\ ~autodelete /\ prompt \notin {"Y", "n"}) =>
          /\ ~ENABLED BatchDeleteStart
          /\ ~ENABLED Decline
          /\ promptsShown < MaxPrompts => ENABLED Prompt
    /\ autodelete => promptsShown = 0 /\ prompt = "None"

C2_Witness ==
    /\ ~autodelete /\ prompt = "Y" /\ promptsShown = 2
    /\ pc = "done" /\ removeCalls # <<>>

CallEvents == {"get_posts", "delete_post", "unrepost"}

\* C3: a delete-post or unrepost call comes after a successful login, a
\* completed archival (snapshot written, every listed blob saved) and a
\* successful decode, in this order; once a stage has failed the run has
\* ended, and no post-fetch, delete or unrepost call was or will be made.
C3_StagesBeforeDeletion ==
    /\ (\E i \in 1..Len(trace) : trace[i] \in CallEvents) =>
          /\ Len(trace) >= 3
          /\ SubSeq(trace, 1, 3) = <<"auth", "archived", "decoded">>
    /\ (\E i \in 1..Len(trace) : trace[i] = "archived") =>
          repoWritten /\ blobsComplete
    /\ pc = "failed" =>
          /\ ~ENABLED Next
          /\ \A i \in 1..Len(trace) : trace[i] \notin CallEvents

C3_Witness ==
    /\ Len(trace) >= 4
    /\ trace[Len(trace)] = "delete_post"
    /\ blobsComplete /\ repoWritten

C5_FailedBatchSkipped ==
    /\ [][(pc = "fetch" /\ fetchFailed' # fetchFailed) =>
            /\ posts_to_delete' = posts_to_delete
            /\ batchIdx' = batchIdx + 1
            /\ Len(fetchCalls') = Len(fetchCalls) + 1
            /\ pc' = (IF batchIdx < Len(Batches) THEN "fetch" ELSE "delete")
            /\ pc' = "delete" => to_delete' = posts_to_delete]_vars
    /\ [][(pc = "fetch" /\ fetchFailed' = fetchFailed) =>
            /\ batchIdx' = batchIdx + 1
            /\ posts_to_delete' = posts_to_delete \o
                 SelectSeq(posts', LAMBDA p : p.author = Me /\ RefOlder(p, AgeDays, now'))]_vars
    /\ [](hasToDelete => Len(fetchCalls) = Len(Batches))

C5_Witness ==
    /\ hasToDelete
    /\ fetchFailed = {1}
    /\ Len(fetchCalls) = 2
    /\ Len(to_delete) > 0

\* C6: _is_older_than_days is true exactly when a creation time can be
\* determined and now minus it is strictly greater than the threshold.
C6_StrictlyOlder ==
    aDone => (aResult <=> RefOlder(aPost, aDays, aNow))

C6_Witness ==
    /\ aDone /\ ~aResult /\ aDays = AgeDays
    /\ aPost.record.shape = "dict"
    /\ aPost.record.createdAt.kind = "str"
    /\ aPost.record.createdAt.form = "naive"
    /\ aNow - aPost.record.createdAt.local = AgeDays * UnitsPerDay

\* C7: the URIs sent to get_posts are, in order, the subject URIs of the
\* extracted like records whose subject URI contains the account identifier
\* and whose subject CID is a key of the block set, and no others.
C7_ExactlySelfLikeUris ==
    LET expected == BatchUris(SelectSeq(likes, LAMBDA x : RefSelfLike(repo.blocks, x)))
    IN  /\ fetchCalls # <<>> => IsPrefix(Flatten(fetchCalls), expected)
        /\ hasToDelete => Flatten(fetchCalls) = expected

C7_Witness ==
    /\ hasToDelete
    /\ Len(fetchCalls) = 1
    /\ \E i \in 1..Len(likes) :
          /\ UriContains(Me, likes[i].subject.uri)
          /\ CIDdecode(likes[i].subject.cid) \notin DOMAIN repo.blocks
    /\ Len(Flatten(fetchCalls)) < Len(likes)

\* C8: n surviving records give ceil(n/25) get_posts calls, each of at most
\* 25 URIs, all but the last of exactly 25, together the records' subject
\* URIs in order.
C8_BatchesOf25 ==
    hasToDelete =>
        LET n == Len(self_like_records)
        IN  /\ Len(fetchCalls) * BatchSize >= n
            /\ (Len(fetchCalls) - 1) * BatchSize < n \/ (n = 0 /\ fetchCalls = <<>>)
            /\ \A k \in 1..Len(fetchCalls) :
                  /\ Len(fetchCalls[k]) <= BatchSize
                  /\ Len(fetchCalls[k]) >= 1
                  /\ k < Len(fetchCalls) => Len(fetchCalls[k]) = BatchSize
            /\ Flatten(fetchCalls) = BatchUris(self_like_records)

C8_Witness ==
    /\ hasToDelete
    /\ Len(self_like_records) = BatchSize + 5
    /\ Len(fetchCalls) = 2
    /\ Len(fetchCalls[1]) = BatchSize /\ Len(fetchCalls[2]) = 5

\* C9: the like extraction normalizes every block and then keeps the
\* normalized blocks that carry the like marker, so every record handed to
\* the self-like filter is a present block carrying the marker.
C9_NormalizeThenFilter ==
    (\E i \in 1..Len(trace) : trace[i] = "decoded") =>
        /\ likes = SelectSeq([i \in 1..Len(repo.blocks) |->
                                extract_feed_item(repo.blocks, repo.blocks[i])],
                             HasLikeMarker)
        /\ \A i \in 1..Len(likes) : likes[i].present /\ likes[i].marker

\* C10: extract_feed_item returns a block with `$type` as it is, resolves a
\* block without `$type` and with a non-empty `e` to the block stored under
\* the hash of e[0].v (absent if there is none), returns any other block as
\* it is, and changes neither the archive nor the block.
C10_Normalization ==
    /\ [](xDone =>
            IF xBlock.type # "none" THEN xResult = xBlock
            ELSE IF xBlock.hasE /\ xBlock.e # <<>>
            THEN (IF xBlock.e[1].v.b32 \in DOMAIN xArchive
                  THEN xResult = xArchive[xBlock.e[1].v.b32]
                  ELSE xResult = NoneBlock)
            ELSE xResult = xBlock)
    /\ [][xArchive' = xArchive /\ xBlock' = xBlock]_vars

C10_Witness ==
    /\ xDone
    /\ xBlock.type = "none" /\ Len(xBlock.e) = 2
    /\ xResult.present /\ xResult # xBlock /\ xResult.type = "like"

====
